---- MODULE Spec2Model ----
(***************************************************************************)
(* Model of the review/mail agent service: the analytics tools and the     *)
(* mail tool of tools.py, the safe-call wrapper, the two tool registries,  *)
(* the intent classifier and the three HTTP endpoints of main.py, and the  *)
(* bare runner of agent_runner.py.                                         *)
(*                                                                         *)
(* A Python str is a sequence of one-character strings (a date is kept as  *)
(* one atom); Python's None is the value None below.                       *)
(***************************************************************************)
EXTENDS Integers, Sequences, FiniteSets, TLC

\* Bounds of the model.
MaxRows == 2
MaxLen == 3
MaxPending == 1

Min(a, b) == IF a <= b THEN a ELSE b
Max(a, b) == IF a >= b THEN a ELSE b

(***************************************************************************)
(* Text                                                                    *)
(***************************************************************************)
None == <<"<None>">>

Whitespace == {" ", "\n"}
Digits == {"0", "1", "2", "3", "4", "5", "6", "7", "8", "9"}
LowerLetters == {"a", "b", "d", "e", "g", "i", "l", "m", "o", "p", "r", "s", "u", "v", "w"}
UpperLetters == {"A", "B", "D", "E", "G", "I", "L", "M", "O", "P", "R", "S", "U", "V", "W"}
Letters == LowerLetters \cup UpperLetters

DigitVal(c) ==
    CASE c = "0" -> 0 [] c = "1" -> 1 [] c = "2" -> 2 [] c = "3" -> 3
      [] c = "4" -> 4 [] c = "5" -> 5 [] c = "6" -> 6 [] c = "7" -> 7
      [] c = "8" -> 8 [] c = "9" -> 9

DigitChar(d) ==
    CASE d = 0 -> "0" [] d = 1 -> "1" [] d = 2 -> "2" [] d = 3 -> "3"
      [] d = 4 -> "4" [] d = 5 -> "5" [] d = 6 -> "6" [] d = 7 -> "7"
      [] d = 8 -> "8" [] d = 9 -> "9"

\* str.lower() and str.upper() on one character.
LowerChar(c) ==
    CASE c = "A" -> "a" [] c = "B" -> "b" [] c = "D" -> "d" [] c = "E" -> "e"
      [] c = "G" -> "g" [] c = "I" -> "i" [] c = "L" -> "l" [] c = "M" -> "m"
      [] c = "O" -> "o" [] c = "P" -> "p" [] c = "R" -> "r" [] c = "S" -> "s"
      [] c = "U" -> "u" [] c = "V" -> "v" [] c = "W" -> "w" [] OTHER -> c

UpperChar(c) ==
    CASE c = "a" -> "A" [] c = "b" -> "B" [] c = "d" -> "D" [] c = "e" -> "E"
      [] c = "g" -> "G" [] c = "i" -> "I" [] c = "l" -> "L" [] c = "m" -> "M"
      [] c = "o" -> "O" [] c = "p" -> "P" [] c = "r" -> "R" [] c = "s" -> "S"
      [] c = "u" -> "U" [] c = "v" -> "V" [] c = "w" -> "W" [] OTHER -> c

Lower(s) == [i \in 1..Len(s) |-> LowerChar(s[i])]

RECURSIVE LStrip(_)
LStrip(s) == IF s # <<>> /\ Head(s) \in Whitespace THEN LStrip(Tail(s)) ELSE s

RECURSIVE RStrip(_)
RStrip(s) ==
    IF s # <<>> /\ s[Len(s)] \in Whitespace THEN RStrip(SubSeq(s, 1, Len(s) - 1)) ELSE s

\* str.strip()
Strip(s) == RStrip(LStrip(s))

\* str(x) of a field that is a str or None.
PyStr(x) == IF x = None THEN <<"N", "o", "n", "e">> ELSE x

RECURSIVE NatToStr(_)
NatToStr(n) == IF n < 10 THEN <<DigitChar(n)>> ELSE NatToStr(n \div 10) \o <<DigitChar(n % 10)>>

\* str(n) of an int.
IntToStr(n) == IF n < 0 THEN <<"-">> \o NatToStr(-n) ELSE NatToStr(n)

RECURSIVE DigitsValue(_, _)
DigitsValue(d, acc) ==
    IF d = <<>> THEN acc
    ELSE IF Head(d) = "_" THEN DigitsValue(Tail(d), acc)
    ELSE DigitsValue(Tail(d), 10 * acc + DigitVal(Head(d)))

\* int(s) of a str: surrounding whitespace is dropped, one sign is allowed, and
\* single underscores may separate digits; anything else is a ValueError.
PyInt(s) ==
    LET t == Strip(s)
        signed == t # <<>> /\ Head(t) \in {"+", "-"}
        neg == t # <<>> /\ Head(t) = "-"
        d == IF signed THEN Tail(t) ELSE t
        ok == /\ d # <<>>
              /\ \A i \in 1..Len(d) : d[i] \in Digits \cup {"_"}
              /\ d[1] # "_"
              /\ d[Len(d)] # "_"
              /\ \A i \in 1..(Len(d) - 1) : ~(d[i] = "_" /\ d[i + 1] = "_")
    IN IF ok
       THEN [ok |-> TRUE, val |-> IF neg THEN 0 - DigitsValue(d, 0) ELSE DigitsValue(d, 0)]
       ELSE [ok |-> FALSE, val |-> 0]

\* seq[:n]
PySliceTo(s, n) ==
    IF n >= 0 THEN SubSeq(s, 1, Min(n, Len(s))) ELSE SubSeq(s, 1, Max(Len(s) + n, 0))

\* sep.join(parts)
RECURSIVE Join(_, _)
Join(parts, sep) ==
    IF parts = <<>> THEN <<>>
    ELSE IF Len(parts) = 1 THEN parts[1]
    ELSE parts[1] \o sep \o Join(Tail(parts), sep)

\* A tool's outcome: the text it returns, or the exception it raises.
Returns(t) == [raised |-> FALSE, text |-> t]
Raises(msg) == [raised |-> TRUE, text |-> msg]

(***************************************************************************)
(* The review store                                                        *)
(***************************************************************************)
\* The rows csv.DictReader can yield for a file with the header
\* Title,Date,Rating,Review: a short row gets None for its missing fields.
Rows ==
    { [Title |-> <<"A">>, Date |-> <<"2024-01-05">>, Rating |-> <<"5">>,
       Review |-> <<"G", "o", "o", "d", " ", "s", "o", "u", "p">>],
      [Title |-> <<"B">>, Date |-> <<"2024-01-20">>, Rating |-> <<"1">>,
       Review |-> <<"B", "a", "d", " ", "s", "o", "u", "p", ".">>],
      [Title |-> <<"D">>, Date |-> <<"n/a">>, Rating |-> <<" ", "5">>,
       Review |-> <<"g", "o", "o", "d">>],
      [Title |-> <<"E">>, Date |-> None, Rating |-> None, Review |-> None] }

SeqsUpTo(S, n) == UNION {[1..k -> S] : k \in 0..n}

Datasets == SeqsUpTo(Rows, MaxRows)

VARIABLES
    reviews_data,   \* tools.reviews_data after load_reviews_from_csv()
    call,           \* the last tool call: tool, input and outcome
    pending,        \* /smart requests awaiting the classifier's completion, by prompt
    req,            \* the request whose handler holds the event loop
    run,            \* the agent run of that request
    http,           \* the response to that request
    agent_runner    \* the import state of the agent_runner module

vars == <<reviews_data, call, pending, req, run, http, agent_runner>>

NoCall == [tool |-> "none"]

\* load_reviews_from_csv(): the rows of the file, appended in file order.
load_reviews_from_csv(file) == file

(***************************************************************************)
(* Analytics tools                                                         *)
(***************************************************************************)
CountRatingError ==
    <<"Invalid input. Please provide a number like '5'.">>
TopRatedError ==
    <<"Please provide a number like '3' to get top rated comments.">>
NoTopRated == <<"No top rated reviews found.">>

\* Mutant of count_rating_tool: the rows are compared with the input as typed.
CountRatingAsTyped(rating_str, data) ==
    LET p == PyInt(Strip(rating_str))
        count == Cardinality({i \in DOMAIN data :
                     Strip(PyStr(data[i].Rating)) = Strip(rating_str)})
    IN IF ~p.ok THEN Returns(CountRatingError)
       ELSE Returns(IntToStr(count) \o <<" customers gave a ">>
                    \o IntToStr(p.val) \o <<"-star rating.">>)

count_rating_tool(rating_str, data) ==
    LET p == PyInt(Strip(rating_str))
        count == Cardinality({i \in DOMAIN data :
                     Strip(PyStr(data[i].Rating)) = IntToStr(p.val)})
    IN IF ~p.ok THEN Returns(CountRatingError)
       ELSE Returns(IntToStr(count) \o <<" customers gave a ">>
                    \o IntToStr(p.val) \o <<"-star rating.">>)

FormatReview(r) ==
    PyStr(r.Title) \o <<" (">> \o PyStr(r.Date) \o <<"): ">> \o PyStr(r.Review)

IsFiveStar(r) == Strip(PyStr(r.Rating)) = <<"5">>

top_rated_comments_tool(n, data) ==
    LET p == PyInt(n)
        top_reviews == PySliceTo(SelectSeq(data, IsFiveStar), p.val)
    IN IF ~p.ok THEN Returns(TopRatedError)
       ELSE IF top_reviews # <<>>
       THEN Returns(Join([i \in 1..Len(top_reviews) |-> FormatReview(top_reviews[i])],
                         <<"\n\n">>))
       ELSE Returns(NoTopRated)

\* round(num / den, places) as the format specs .1f and .2f print it, for
\* num >= 0 and den > 0: scaled == 10^places; ties go to the even digit.
RoundScaled(num, den, scaled) ==
    LET q == (num * scaled) \div den
        r == (num * scaled) % den
    IN IF 2 * r > den \/ (2 * r = den /\ q % 2 = 1) THEN q + 1 ELSE q

\* f"{num / den:.1f}"
Fmt1(num, den) ==
    LET t == RoundScaled(num, den, 10)
    IN NatToStr(t \div 10) \o <<".", DigitChar(t % 10)>>

\* f"{num / den:.2f}"
Fmt2(num, den) ==
    LET t == RoundScaled(num, den, 100)
    IN NatToStr(t \div 100) \o <<".", DigitChar((t \div 10) % 10), DigitChar(t % 10)>>

\* int(review["Rating"]) inside the tools' try blocks: None is a TypeError.
RatingInt(r) == IF r.Rating = None THEN [ok |-> FALSE, val |-> 0] ELSE PyInt(r.Rating)

RECURSIVE SumSeq(_)
SumSeq(s) == IF s = <<>> THEN 0 ELSE Head(s) + SumSeq(Tail(s))

HasIntRating(r) == RatingInt(r).ok

rating_summary_tool(input, data) ==
    LET valid == SelectSeq(data, HasIntRating)
        count == Len(valid)
        total_rating == SumSeq([i \in 1..count |-> RatingInt(valid[i]).val])
        avg == IF count # 0 THEN Fmt1(total_rating, count) ELSE <<"0", ".", "0">>
    IN Returns(<<"There are ">> \o IntToStr(count)
               \o <<" reviews with an average rating of ">> \o avg \o <<" stars.">>)

\* needle in hay
Contains(hay, needle) ==
    \E i \in 0..(Len(hay) - Len(needle)) : SubSeq(hay, i + 1, i + Len(needle)) = needle

NoneHasNo(attr) == <<"'NoneType' object has no attribute '", attr, "'">>

NoMatch == <<"No reviews found matching your query.">>

search_reviews_tool(query, data) ==
    LET HasBody(r) == r.Review # None
        Matches(r) == HasBody(r) /\ Contains(Lower(r.Review), Lower(query))
        results == SelectSeq(data, Matches)
        shown == PySliceTo(results, 3)
    IN IF \E i \in DOMAIN data : ~HasBody(data[i]) THEN Raises(NoneHasNo("lower"))
       ELSE IF results = <<>> THEN Returns(NoMatch)
       ELSE Returns(Join([i \in 1..Len(shown) |-> FormatReview(shown[i])], <<"\n\n">>))

\* str.split(): the maximal runs of non-whitespace characters.
RECURSIVE SplitFrom(_, _)
SplitFrom(s, word) ==
    IF s = <<>> THEN (IF word = <<>> THEN <<>> ELSE <<word>>)
    ELSE IF Head(s) \in Whitespace
         THEN (IF word = <<>> THEN <<>> ELSE <<word>>) \o SplitFrom(Tail(s), <<>>)
         ELSE SplitFrom(Tail(s), Append(word, Head(s)))

Split(s) == SplitFrom(s, <<>>)

Punctuation == {".", ",", "!", "?", "(", ")"}

RECURSIVE LStripChars(_, _)
LStripChars(s, cs) == IF s # <<>> /\ Head(s) \in cs THEN LStripChars(Tail(s), cs) ELSE s

RECURSIVE RStripChars(_, _)
RStripChars(s, cs) ==
    IF s # <<>> /\ s[Len(s)] \in cs THEN RStripChars(SubSeq(s, 1, Len(s) - 1), cs) ELSE s

\* word.strip(".,!?()")
StripPunct(w) == RStripChars(LStripChars(w, Punctuation), Punctuation)

\* str.isalpha()
IsAlpha(w) == w # <<>> /\ \A i \in 1..Len(w) : w[i] \in Letters

\* The stripped words of a review body, in order.
Words(body) == LET ws == Split(Lower(body)) IN [i \in 1..Len(ws) |-> StripPunct(ws[i])]

\* freq[word] = freq.get(word, 0) + 1 on a dict kept in insertion order.
Bump(freq, w) ==
    IF \E i \in DOMAIN freq : freq[i].word = w
    THEN [i \in DOMAIN freq |->
             IF freq[i].word = w THEN [word |-> w, n |-> freq[i].n + 1] ELSE freq[i]]
    ELSE Append(freq, [word |-> w, n |-> 1])

RECURSIVE CountWords(_, _)
CountWords(ws, freq) ==
    IF ws = <<>> THEN freq ELSE CountWords(Tail(ws), Bump(freq, Head(ws)))

RECURSIVE Flatten(_)
Flatten(ss) == IF ss = <<>> THEN <<>> ELSE Head(ss) \o Flatten(Tail(ss))

\* sorted(items, key=count, reverse=True): stable, equal counts keep their order.
RECURSIVE InsertDesc(_, _)
InsertDesc(sorted, x) ==
    IF sorted = <<>> THEN <<x>>
    ELSE IF Head(sorted).n >= x.n THEN <<Head(sorted)>> \o InsertDesc(Tail(sorted), x)
    ELSE <<x>> \o sorted

RECURSIVE SortDesc(_, _)
SortDesc(items, acc) ==
    IF items = <<>> THEN acc ELSE SortDesc(Tail(items), InsertDesc(acc, Head(items)))

low_rated_reasons_tool(input, data) ==
    LET BadRating(r) == r.Rating = None
        Low(r) == ~BadRating(r) /\ Strip(r.Rating) \in {<<"1">>, <<"2">>}
        BadBody(r) == Low(r) /\ r.Review = None
        bad == {i \in DOMAIN data : BadRating(data[i]) \/ BadBody(data[i])}
        first == CHOOSE i \in bad : \A j \in bad : i <= j
        low == SelectSeq(data, Low)
        IsKeyword(w) == IsAlpha(w)
        words == SelectSeq(Flatten([i \in 1..Len(low) |-> Words(low[i].Review)]), IsKeyword)
        sorted_keywords == PySliceTo(SortDesc(CountWords(words, <<>>), <<>>), 5)
    IN IF bad # {}
       THEN Raises(NoneHasNo(IF BadRating(data[first]) THEN "strip" ELSE "lower"))
       ELSE Returns(<<"Common keywords in low-rated reviews: ">>
                    \o Join([i \in 1..Len(sorted_keywords) |-> sorted_keywords[i].word],
                            <<",", " ">>))

review_count_by_date_tool(date, data) ==
    LET count == Cardinality({i \in DOMAIN data : data[i].Date = date})
    IN Returns(IntToStr(count) \o <<" reviews were posted on ">> \o date \o <<".">>)

\* max(items, key=count): the first item with the greatest count.
FirstMax(items) ==
    LET i == CHOOSE i \in DOMAIN items :
                 /\ \A j \in DOMAIN items : items[j].n <= items[i].n
                 /\ \A j \in 1..(i - 1) : items[j].n < items[i].n
    IN items[i]

most_mentioned_dish_tool(input, data) ==
    LET IsTerm(w) == IsAlpha(w) /\ Len(w) > 3
        bodies == [i \in DOMAIN data |-> IF data[i].Review = None THEN <<>> ELSE data[i].Review]
        words == SelectSeq(Flatten([i \in 1..Len(data) |-> Words(bodies[i])]), IsTerm)
        word_freq == CountWords(words, <<>>)
        top_word == FirstMax(word_freq)
    IN IF \E i \in DOMAIN data : data[i].Review = None THEN Raises(NoneHasNo("lower"))
       ELSE IF word_freq = <<>> THEN Returns(<<"No mentions found.">>)
       ELSE Returns(<<"The most mentioned term in reviews is '">> \o top_word.word
                    \o <<"' with ">> \o IntToStr(top_word.n) \o <<" mentions.">>)

\* datetime.strptime(date, "%Y-%m-%d") on the dates of Rows: the year and month, or
\* no value (TypeError for None, ValueError for a string that is no date).
Strptime(date) ==
    CASE date = <<"2024-01-05">> -> [ok |-> TRUE, year |-> 2024, month |-> 1]
      [] date = <<"2024-01-20">> -> [ok |-> TRUE, year |-> 2024, month |-> 1]
      [] date = <<"2024-02-10">> -> [ok |-> TRUE, year |-> 2024, month |-> 2]
      [] OTHER -> [ok |-> FALSE, year |-> 0, month |-> 0]

\* date_obj.strftime("%Y-%m")
StrftimeMonth(year, month) ==
    NatToStr(year) \o <<"-">> \o (IF month < 10 THEN <<"0">> ELSE <<>>) \o NatToStr(month)

RECURSIVE SortedKeys(_)
SortedKeys(S) ==
    IF S = {} THEN <<>>
    ELSE LET m == CHOOSE x \in S : \A y \in S : x <= y IN <<m>> \o SortedKeys(S \ {m})

sentiment_trend_tool(input, data) ==
    LET Valid(r) == Strptime(r.Date).ok /\ RatingInt(r).ok
        valid == SelectSeq(data, Valid)
        Key(r) == Strptime(r.Date).year * 100 + Strptime(r.Date).month
        sorted_months == SortedKeys({Key(valid[i]) : i \in 1..Len(valid)})
        Of(k) == LET InMonth(r) == Key(r) = k IN SelectSeq(valid, InMonth)
        Line(k) == StrftimeMonth(k \div 100, k % 100) \o <<":", " ">>
                   \o Fmt2(SumSeq([i \in 1..Len(Of(k)) |-> RatingInt(Of(k)[i]).val]), Len(Of(k)))
        trend == [i \in 1..Len(sorted_months) |-> Line(sorted_months[i])]
    IN Returns(<<"Sentiment trend by month:\n">> \o Join(trend, <<"\n">>))

final_answer_tool(text) ==
    IF text = <<>> THEN Returns(<<"No final answer provided.">>) ELSE Returns(Strip(text))

(***************************************************************************)
(* Mail tool                                                               *)
(***************************************************************************)
\* A JSON string literal is kept as one atom; Unquote is the str it denotes.
JsonStrLits == {"\"to\"", "\"subject\"", "\"body\"", "\"x@y.com\"", "\"Hi\""}

Unquote(a) ==
    CASE a = "\"to\"" -> "to" [] a = "\"subject\"" -> "subject" [] a = "\"body\"" -> "body"
      [] a = "\"x@y.com\"" -> "x@y.com" [] a = "\"Hi\"" -> "Hi"

JsonFail == [ok |-> FALSE, kind |-> "none", text |-> <<>>, items |-> <<>>, rest |-> <<>>]
JsonStr(t, rest) == [ok |-> TRUE, kind |-> "str", text |-> t, items |-> <<>>, rest |-> rest]
JsonInt(t, rest) == [ok |-> TRUE, kind |-> "int", text |-> t, items |-> <<>>, rest |-> rest]
JsonDict(items, rest) ==
    [ok |-> TRUE, kind |-> "dict", text |-> <<>>, items |-> items, rest |-> rest]

RECURSIVE DigitRun(_)
DigitRun(s) == IF s # <<>> /\ Head(s) \in Digits THEN 1 + DigitRun(Tail(s)) ELSE 0

\* A JSON number without fraction or exponent: -?(0|[1-9][0-9]*)
JsonNumber(s) ==
    LET neg == s # <<>> /\ Head(s) = "-"
        d == IF neg THEN Tail(s) ELSE s
        n == IF d # <<>> /\ Head(d) = "0" THEN 1 ELSE DigitRun(d)
    IN IF n = 0 THEN JsonFail
       ELSE JsonInt((IF neg THEN <<"-">> ELSE <<>>) \o SubSeq(d, 1, n), SubSeq(d, n + 1, Len(d)))

\* A string or a number (the inputs modelled nest no object or array in an object).
JsonScalar(s) ==
    IF s = <<>> THEN JsonFail
    ELSE IF Head(s) \in JsonStrLits THEN JsonStr(<<Unquote(Head(s))>>, Tail(s))
    ELSE JsonNumber(s)

\* The members of an object after its "{" or after a ",".
RECURSIVE JsonPairs(_, _)
JsonPairs(s, items) ==
    LET t == LStrip(s)
        afterKey == LStrip(Tail(t))
        v == JsonScalar(LStrip(Tail(afterKey)))
        afterVal == LStrip(v.rest)
        all == Append(items, [key |-> Unquote(Head(t)), kind |-> v.kind, text |-> v.text])
    IN IF t = <<>> \/ Head(t) \notin JsonStrLits THEN JsonFail
       ELSE IF afterKey = <<>> \/ Head(afterKey) # ":" THEN JsonFail
       ELSE IF ~v.ok \/ afterVal = <<>> THEN JsonFail
       ELSE IF Head(afterVal) = "}" THEN JsonDict(all, Tail(afterVal))
       ELSE IF Head(afterVal) = "," THEN JsonPairs(Tail(afterVal), all)
       ELSE JsonFail

\* json.loads(s): the value, or not ok for a JSONDecodeError.
json_loads(s) ==
    LET t == LStrip(s)
        inner == LStrip(Tail(t))
        v == IF t = <<>> THEN JsonFail
             ELSE IF Head(t) = "{"
             THEN (IF inner # <<>> /\ Head(inner) = "}" THEN JsonDict(<<>>, Tail(inner))
                   ELSE JsonPairs(inner, <<>>))
             ELSE JsonScalar(t)
    IN IF v.ok /\ LStrip(v.rest) = <<>> THEN v ELSE JsonFail

HasKey(items, k) == \E i \in DOMAIN items : items[i].key = k

\* data[k] of a dict built by json.loads: the last member named k.
Lookup(items, k) ==
    items[CHOOSE i \in DOMAIN items :
              items[i].key = k /\ \A j \in DOMAIN items : items[j].key = k => j <= i]

\* data.get(k, default)
GetOr(items, k, default) ==
    IF HasKey(items, k) THEN Lookup(items, k) ELSE [key |-> k, kind |-> "str", text |-> default]

gmail_user == <<"GMAIL_USER">>

\* What the SMTP relay does with one session: SMTP_SSL(...), login, send_message.
SmtpOutcomes == {"connect_error", "login_error", "send_error", "ok"}

NoSmtp == [attempted |-> FALSE, sent |-> <<>>]

\* Mutant of SendMailError: the exception leaves send_mail_tool.
SendMailErrorUncaught(msg) == [result |-> Raises(msg), smtp |-> NoSmtp]

\* except Exception as e: return f"[SendMail Error] {str(e)}"
SendMailError(msg) ==
    [result |-> Returns(<<"[SendMail Error] ">> \o msg), smtp |-> NoSmtp]

\* send_mail_tool(input_str) against a relay that answers `relay`: the string
\* returned, whether a connection was attempted, and the messages transmitted.
send_mail_tool(input_str, relay) ==
    LET data == json_loads(input_str)
        to_addr == Lookup(data.items, "to")
        subject == GetOr(data.items, "subject", <<"No Subject">>)
        body == GetOr(data.items, "body", <<>>)
        msg == [From |-> gmail_user, To |-> to_addr.text,
                Subject |-> subject.text, Content |-> body.text]
    IN IF ~data.ok THEN SendMailError(<<"<JSONDecodeError>">>)
       ELSE IF data.kind = "str"
       THEN SendMailError(<<"string indices must be integers, not 'str'">>)
       ELSE IF data.kind = "int" THEN SendMailError(<<"'int' object is not subscriptable">>)
       ELSE IF ~HasKey(data.items, "to") THEN SendMailError(<<"'to'">>)
       ELSE IF subject.kind = "int"
       THEN SendMailError(<<"'int' object is not subscriptable">>)
       ELSE IF body.kind = "int" THEN SendMailError(<<"'builtins.int'">>)
       ELSE IF relay # "ok"
       THEN [result |-> Returns(<<"[SendMail Error] ", "<", relay, ">">>),
             smtp |-> [attempted |-> TRUE, sent |-> <<>>]]
       ELSE [result |-> Returns(<<"Email sent successfully to ">> \o to_addr.text),
             smtp |-> [attempted |-> TRUE, sent |-> <<msg>>]]

(***************************************************************************)
(* Safe-call wrapper and tool registries                                   *)
(***************************************************************************)
\* Mutant of safe_tool: the wrapper lets the exception through.
SafeToolUncaught(outcome) == outcome

\* safe_tool(tool_func)(input_str), given what tool_func(input_str) does.
safe_tool(outcome) ==
    IF outcome.raised THEN Returns(<<"[Tool Error] ">> \o outcome.text) ELSE outcome

ReviewToolNames ==
    {"RatingSummary", "SearchReviews", "FinalAnswer", "CountRating", "TopRatedComments",
     "LowRatedReasons", "ReviewCountByDate", "MostMentionedDish", "SentimentTrend"}

MailToolNames == {"SendMail", "FinalAnswer"}

\* The function each Tool of review_tools is built from.
ReviewToolFunc(name, input, data) ==
    CASE name = "RatingSummary" -> rating_summary_tool(input, data)
      [] name = "SearchReviews" -> search_reviews_tool(input, data)
      [] name = "FinalAnswer" -> final_answer_tool(input)
      [] name = "CountRating" -> count_rating_tool(input, data)
      [] name = "TopRatedComments" -> top_rated_comments_tool(input, data)
      [] name = "LowRatedReasons" -> low_rated_reasons_tool(input, data)
      [] name = "ReviewCountByDate" -> review_count_by_date_tool(input, data)
      [] name = "MostMentionedDish" -> most_mentioned_dish_tool(input, data)
      [] name = "SentimentTrend" -> sentiment_trend_tool(input, data)

\* The tools of each registry whose func is safe_tool(...).
ReviewWrapped == ReviewToolNames
MailWrapped == {"SendMail"}

\* A call of a registry's Tool: what its function did (inner, with its SMTP
\* traffic), whether func is safe_tool(...), and what func(input) gives the caller.
Registered(done, wrapped) ==
    [inner |-> done.result, wrapped |-> wrapped, smtp |-> done.smtp,
     result |-> IF wrapped THEN safe_tool(done.result) ELSE done.result]

\* review_tools: name -> func(input)
review_tools(name, input, data) ==
    Registered([result |-> ReviewToolFunc(name, input, data), smtp |-> NoSmtp],
               name \in ReviewWrapped)

\* mail_tools: name -> func(input); FinalAnswer is lambda x: x.
mail_tools(name, input, relay) ==
    Registered(IF name = "SendMail" THEN send_mail_tool(input, relay)
               ELSE [result |-> Returns(input), smtp |-> NoSmtp],
               name \in MailWrapped)

\* Mutant of reviews_after: the top-rated tool filters the list in place.
ReviewsAfterFiltered(tool, data) ==
    IF tool = "TopRatedComments"
    THEN SelectSeq(data, LAMBDA r : Strip(PyStr(r.Rating)) = <<"5">>)
    ELSE data

\* tools.reviews_data after a tool ran: no tool assigns, appends to, sorts or
\* deletes from the list; each only iterates over it.
reviews_after(tool, data) == data

(***************************************************************************)
(* Intent classifier                                                       *)
(***************************************************************************)
Review == <<"R", "e", "v", "i", "e", "w">>
Mail == <<"M", "a", "i", "l">>
Unknown == <<"Unknown">>

\* Mutant of Capitalize: the first letter is raised, the rest is left as it is.
CapitalizeFirstOnly(s) == IF s = <<>> THEN s ELSE <<UpperChar(Head(s))>> \o Tail(s)

\* str.capitalize()
Capitalize(s) == IF s = <<>> THEN s ELSE <<UpperChar(Head(s))>> \o Lower(Tail(s))

\* classify_intent_llm, given the model's response.
classify_intent_llm(response) ==
    LET intent == Capitalize(Strip(response))
    IN IF intent \notin {Review, Mail} THEN Unknown ELSE intent

(***************************************************************************)
(* Agent loop (the external executor, as the design states its contract)   *)
(***************************************************************************)
\* Mutants of the iteration bounds: one iteration more.
ReviewMaxIterationsOneMore == 10 + 1
MailMaxIterationsOneMore == 1 + 1

ReviewMaxIterations == 10
MailMaxIterations == 1
BareMaxIterations == 3

MaxIterations(agent) ==
    CASE agent = "review" -> ReviewMaxIterations
      [] agent = "mail" -> MailMaxIterations
      [] agent = "bare" -> BareMaxIterations

StoppedText == <<"Agent stopped due to iteration limit or time limit.">>
LLMError == <<"<LLM request failed>">>

NoRun ==
    [agent |-> "none", input |-> <<>>, iterations |-> 0, status |-> "none",
     output |-> <<>>, sendmail_calls |-> 0, transmissions |-> 0]

\* executor.run(input) begins: no step taken yet.
StartRun(agent, input) ==
    [agent |-> agent, input |-> input, iterations |-> 0, status |-> "running",
     output |-> <<>>, sendmail_calls |-> 0, transmissions |-> 0]

\* One iteration ended with an observation: count it, and stop at the bound.
AfterObservation(r) ==
    LET n == r.iterations + 1
    IN IF n >= MaxIterations(r.agent)
       THEN [r EXCEPT !.iterations = n, !.status = "stopped", !.output = StoppedText]
       ELSE [r EXCEPT !.iterations = n]

\* An exception leaves the loop and run().
AfterException(r, msg) == [r EXCEPT !.status = "raised", !.output = msg]

\* The model emitted its final answer.
AfterFinish(r, text) == [r EXCEPT !.status = "finished", !.output = text]

\* What run() did, for its caller.
RunOutcome(r) == IF r.status = "raised" THEN Raises(r.output) ELSE Returns(r.output)

(***************************************************************************)
(* HTTP endpoints                                                          *)
(***************************************************************************)
Apology ==
    <<"Sorry, I couldn't understand if this is about reviews or sending mail.">>

NoHttp == [status |-> 0, kind |-> "none", intent |-> <<>>, text |-> <<>>]
Http500(detail) == [status |-> 500, kind |-> "detail", intent |-> <<>>, text |-> detail]
HttpAnswer(t) == [status |-> 200, kind |-> "answer", intent |-> <<>>, text |-> t]
HttpSmart(intent, t) == [status |-> 200, kind |-> "smart", intent |-> intent, text |-> t]

\* Mutant of ask_agent_endpoint: the except clause answers as if all went well.
AskEndpointSwallows(outcome) == HttpAnswer(outcome.text)

\* ask_agent_endpoint, given what agent_executor.run(request.question) did.
ask_agent_endpoint(outcome) ==
    IF outcome.raised THEN Http500(outcome.text) ELSE HttpAnswer(outcome.text)

\* send_mail_endpoint, given what mail_agent_executor.run(request.question) did.
send_mail_endpoint(outcome) ==
    IF outcome.raised THEN Http500(outcome.text) ELSE HttpAnswer(outcome.text)

\* Mutant of smart_router_agent: the else branch runs the review agent.
SmartRouterAgentFallsThrough(intent) == IF intent = Mail THEN "mail" ELSE "review"

\* The agent smart_router runs for an intent ("none": the apology branch).
smart_router_agent(intent) ==
    IF intent = Review THEN "review" ELSE IF intent = Mail THEN "mail" ELSE "none"

\* smart_router's response, given the intent and what the selected branch did.
smart_router(intent, outcome) ==
    IF outcome.raised THEN Http500(outcome.text) ELSE HttpSmart(intent, outcome.text)

EndpointResponse(r, outcome) ==
    CASE r.endpoint = "/ask" -> ask_agent_endpoint(outcome)
      [] r.endpoint = "/sendmail" -> send_mail_endpoint(outcome)
      [] r.endpoint = "/smart" -> smart_router(r.intent, outcome)

\* The names tools.py binds at module level.
ToolsModuleNames ==
    {"csv", "defaultdict", "datetime", "smtplib", "EmailMessage", "json", "os",
     "load_dotenv", "reviews_data", "gmail_user", "gmail_password",
     "load_reviews_from_csv", "rating_summary_tool", "search_reviews_tool",
     "count_rating_tool", "top_rated_comments_tool", "low_rated_reasons_tool",
     "review_count_by_date_tool", "most_mentioned_dish_tool", "sentiment_trend_tool",
     "send_mail_tool", "final_answer_tool"}

\* Importing agent_runner executes `from tools import tools`.
agent_runner_import ==
    IF "tools" \in ToolsModuleNames THEN "ready" ELSE "ImportError"

(***************************************************************************)
(* Inputs                                                                  *)
(***************************************************************************)
Prompts == {<<"p1">>, <<"p2">>}

\* What the model may answer the classifier: a word in any letter case, with
\* whitespace around it.
ResponseWords ==
    { <<"r", "e", "v", "i", "e", "w">>, <<"m", "a", "i", "l">>,
      <<"m", "a", "i", "l", "s">>, <<"m", "a", " ", "i", "l">>,
      <<"r", "e", "v", "i", "e", "w", ".">>, <<>> }

CaseVariants(w) ==
    {[i \in 1..Len(w) |-> IF up[i] THEN UpperChar(w[i]) ELSE w[i]] :
        up \in [1..Len(w) -> BOOLEAN]}

Pads == {<<>>} \cup {<<w>> : w \in Whitespace}

Responses ==
    UNION {{l \o v \o r : l \in Pads, r \in Pads} :
              v \in UNION {CaseVariants(w) : w \in ResponseWords}}

\* The tool inputs the model may choose.
ReviewActions ==
    { [tool |-> "RatingSummary", input |-> <<>>],
      [tool |-> "SearchReviews", input |-> <<"S", "O", "U", "P">>],
      [tool |-> "SearchReviews", input |-> <<"p", "i", "e">>],
      [tool |-> "FinalAnswer", input |-> <<>>],
      [tool |-> "FinalAnswer", input |-> <<" ", "o", "k">>],
      [tool |-> "CountRating", input |-> <<"5">>],
      [tool |-> "CountRating", input |-> <<"a">>],
      [tool |-> "TopRatedComments", input |-> <<"1">>],
      [tool |-> "TopRatedComments", input |-> <<"a">>],
      [tool |-> "LowRatedReasons", input |-> <<>>],
      [tool |-> "ReviewCountByDate", input |-> <<"2024-01-05">>],
      [tool |-> "MostMentionedDish", input |-> <<>>],
      [tool |-> "SentimentTrend", input |-> <<>>] }

\* SendMail inputs, each with what it is as JSON: "ok" (an object with `to`),
\* "bad_field" (an object with `to` whose subject is no string), "no_to" (an
\* object without `to`), "not_object" (a JSON value that is no object) and
\* "malformed" (no JSON); and, for an object, the recipient, subject and body of
\* the mail it asks for.
MailInputs ==
    { [class |-> "ok", to |-> <<"x@y.com">>, subject |-> <<"No Subject">>, body |-> <<>>,
       text |-> <<"{", "\"to\"", ":", "\"x@y.com\"", "}">>],
      [class |-> "ok", to |-> <<"x@y.com">>, subject |-> <<"Hi">>, body |-> <<"Hi">>,
       text |-> <<"{", "\"to\"", ":", "\"x@y.com\"", ",", "\"subject\"", ":", "\"Hi\"",
                  ",", "\"body\"", ":", "\"Hi\"", "}">>],
      [class |-> "ok", to |-> <<"x@y.com">>, subject |-> <<"No Subject">>, body |-> <<"Hi">>,
       text |-> <<" ", "{", " ", "\"body\"", " ", ":", "\"Hi\"", ",", "\n", "\"to\"",
                  ":", " ", "\"x@y.com\"", " ", "}", "\n">>],
      [class |-> "ok", to |-> <<"x@y.com">>, subject |-> <<"No Subject">>, body |-> <<>>,
       text |-> <<"{", "\"to\"", ":", "\"Hi\"", ",", "\"to\"", ":", "\"x@y.com\"", "}">>],
      [class |-> "ok", to |-> <<"5">>, subject |-> <<"No Subject">>, body |-> <<>>,
       text |-> <<"{", "\"to\"", ":", "5", "}">>],
      [class |-> "bad_field", to |-> <<"x@y.com">>, subject |-> <<"5">>, body |-> <<>>,
       text |-> <<"{", "\"to\"", ":", "\"x@y.com\"", ",", "\"subject\"", ":", "5", "}">>],
      [class |-> "no_to", to |-> <<>>, subject |-> <<"Hi">>, body |-> <<>>,
       text |-> <<"{", "\"subject\"", ":", "\"Hi\"", "}">>],
      [class |-> "no_to", to |-> <<>>, subject |-> <<>>, body |-> <<>>,
       text |-> <<"{", "}">>],
      [class |-> "not_object", to |-> <<>>, subject |-> <<>>, body |-> <<>>,
       text |-> <<"\"x@y.com\"">>],
      [class |-> "not_object", to |-> <<>>, subject |-> <<>>, body |-> <<>>,
       text |-> <<"5">>],
      [class |-> "malformed", to |-> <<>>, subject |-> <<>>, body |-> <<>>,
       text |-> <<>>],
      [class |-> "malformed", to |-> <<>>, subject |-> <<>>, body |-> <<>>,
       text |-> <<"{", "\"to\"", ":", "\"x@y.com\"">>],
      [class |-> "malformed", to |-> <<>>, subject |-> <<>>, body |-> <<>>,
       text |-> <<"{", "\"to\"", ":", "\"x@y.com\"", ",", "}">>],
      [class |-> "malformed", to |-> <<>>, subject |-> <<>>, body |-> <<>>,
       text |-> <<"{", "\"to\"", "\"x@y.com\"", "}">>],
      [class |-> "malformed", to |-> <<>>, subject |-> <<>>, body |-> <<>>,
       text |-> <<"{", "\"to\"", ":", "\"x@y.com\"", "}", " ", "x">>],
      [class |-> "malformed", to |-> <<>>, subject |-> <<>>, body |-> <<>>,
       text |-> <<"0", "5">>],
      [class |-> "malformed", to |-> <<>>, subject |-> <<>>, body |-> <<>>,
       text |-> <<"t", "o">>] }

MailActions ==
    {[tool |-> "SendMail", input |-> i.text] : i \in MailInputs}
    \cup {[tool |-> "FinalAnswer", input |-> <<"s", "e", "n", "t">>]}

AgentActions(agent) == IF agent = "review" THEN ReviewActions ELSE MailActions
AgentToolNames(agent) == IF agent = "review" THEN ReviewToolNames ELSE MailToolNames

FinalTexts == {<<"d", "o", "n", "e">>}

(***************************************************************************)
(* Specification of the service                                            *)
(***************************************************************************)
Idle ==
    [endpoint |-> "none", text |-> <<>>, pc |-> "idle", response |-> <<>>,
     intent |-> None, review_runs |-> 0, mail_runs |-> 0, exc |-> None]

\* The event loop is free: no handler is running between two awaits.
LoopFree == req.pc = "idle"

RECURSIVE SumOver(_, _)
SumOver(f, S) ==
    IF S = {} THEN 0 ELSE LET x == CHOOSE x \in S : TRUE IN f[x] + SumOver(f, S \ {x})

\* The files the service is started on: none of the rows, two whole rows, and a
\* whole row followed by a short one.
ServiceFiles ==
    {d \in Datasets :
        \/ d = <<>>
        \/ Len(d) = 2 /\ d[1].Title = <<"B">> /\ d[2].Title \in {<<"A">>, <<"E">>}}

Init ==
    /\ reviews_data \in {load_reviews_from_csv(f) : f \in ServiceFiles}
    /\ call = NoCall
    /\ pending = [p \in Prompts |-> 0]
    /\ req = Idle
    /\ run = NoRun
    /\ http = NoHttp
    /\ agent_runner = "unimported"

\* POST /ask: the handler runs to the review agent's first model call.
AskRequest ==
    \E q \in Prompts :
        /\ LoopFree
        /\ req' = [Idle EXCEPT !.endpoint = "/ask", !.text = q, !.pc = "agent",
                               !.review_runs = 1]
        /\ run' = StartRun("review", q)
        /\ call' = NoCall
        /\ http' = NoHttp
        /\ UNCHANGED <<reviews_data, pending, agent_runner>>

\* POST /sendmail: the handler runs to the mail agent's first model call.
SendMailRequest ==
    \E q \in Prompts :
        /\ LoopFree
        /\ req' = [Idle EXCEPT !.endpoint = "/sendmail", !.text = q, !.pc = "agent",
                               !.mail_runs = 1]
        /\ run' = StartRun("mail", q)
        /\ call' = NoCall
        /\ http' = NoHttp
        /\ UNCHANGED <<reviews_data, pending, agent_runner>>

\* POST /smart: the handler runs to `await classify_intent_llm(...)` and yields.
SmartRequest ==
    \E p \in Prompts :
        /\ LoopFree
        /\ SumOver(pending, Prompts) < MaxPending
        /\ pending' = [pending EXCEPT ![p] = @ + 1]
        /\ UNCHANGED <<reviews_data, call, req, run, http, agent_runner>>

\* The classifier's completion arrives: classify_intent_llm returns the intent.
ClassifierReturns ==
    \E p \in {q \in Prompts : LoopFree /\ pending[q] > 0}, response \in Responses :
        /\ LoopFree
        /\ pending[p] > 0
        /\ pending' = [pending EXCEPT ![p] = @ - 1]
        /\ req' = [Idle EXCEPT !.endpoint = "/smart", !.text = p, !.pc = "classified",
                               !.response = response,
                               !.intent = classify_intent_llm(response)]
        /\ run' = NoRun
        /\ call' = NoCall
        /\ http' = NoHttp
        /\ UNCHANGED <<reviews_data, agent_runner>>

\* The classifier's completion fails: the exception reaches smart_router's except.
ClassifierRaises ==
    \E p \in Prompts :
        /\ LoopFree
        /\ pending[p] > 0
        /\ pending' = [pending EXCEPT ![p] = @ - 1]
        /\ req' = [Idle EXCEPT !.endpoint = "/smart", !.text = p, !.pc = "done",
                               !.exc = LLMError]
        /\ run' = NoRun
        /\ call' = NoCall
        /\ http' = smart_router(None, Raises(LLMError))
        /\ UNCHANGED <<reviews_data, agent_runner>>

\* smart_router after the classifier returned: pick the branch.
SmartDispatch ==
    /\ req.pc = "classified"
    /\ LET agent == smart_router_agent(req.intent)
       IN IF agent = "none"
          THEN /\ req' = [req EXCEPT !.pc = "done", !.response = <<>>]
               /\ run' = run
               /\ http' = smart_router(req.intent, Returns(Apology))
          ELSE /\ req' = [req EXCEPT !.pc = "agent", !.response = <<>>,
                                     !.review_runs = IF agent = "review" THEN @ + 1 ELSE @,
                                     !.mail_runs = IF agent = "mail" THEN @ + 1 ELSE @]
               /\ run' = StartRun(agent, req.text)
               /\ http' = http
    /\ UNCHANGED <<reviews_data, call, pending, agent_runner>>

Running == req.pc = "agent" /\ run.status = "running"

\* run() went on to `r`: when it is over, the handler answers.
Continue(r, exc) ==
    /\ run' = r
    /\ IF r.status = "running"
       THEN req' = req /\ http' = http
       ELSE /\ req' = [req EXCEPT !.pc = "done", !.exc = exc]
            /\ http' = EndpointResponse(req, RunOutcome(r))

\* The model call of an iteration fails.
AgentModelRaises ==
    /\ Running
    /\ Continue(AfterException(run, LLMError), LLMError)
    /\ UNCHANGED <<reviews_data, call, pending, agent_runner>>

\* The model emits its final answer.
AgentFinish ==
    \E t \in FinalTexts :
        /\ Running
        /\ Continue(AfterFinish(run, t), None)
        /\ UNCHANGED <<reviews_data, call, pending, agent_runner>>

\* The model's output parses to no action: the loop reprompts, and counts the step.
AgentParseError ==
    /\ Running
    /\ Continue(AfterObservation(run), None)
    /\ UNCHANGED <<reviews_data, call, pending, agent_runner>>

\* The model names a tool the registry does not hold: the loop tells it so.
AgentInvalidTool ==
    /\ Running
    /\ Continue(AfterObservation(run), None)
    /\ call' = [tool |-> "<invalid>"]
    /\ UNCHANGED <<reviews_data, pending, agent_runner>>

\* The run's counters after a tool call.
Counted(r, tool, sent) ==
    [r EXCEPT !.sendmail_calls = IF tool = "SendMail" THEN @ + 1 ELSE @,
              !.transmissions = @ + Len(sent)]

\* The loop called tool a.tool and got c: an exception leaves the loop, a string
\* is the observation of the iteration.
Called(a, relay, c) ==
    /\ call' = [tool |-> a.tool, agent |-> run.agent, input |-> a.input,
                relay |-> relay, inner |-> c.inner, wrapped |-> c.wrapped,
                result |-> c.result, smtp |-> c.smtp]
    /\ IF c.result.raised
       THEN Continue(AfterException(Counted(run, a.tool, c.smtp.sent), c.result.text),
                     c.result.text)
       ELSE Continue(AfterObservation(Counted(run, a.tool, c.smtp.sent)), None)

\* The model picks a tool of the run's registry and an input: the loop calls it.
AgentToolCall ==
    \E a \in AgentActions(run.agent), relay \in SmtpOutcomes :
        /\ Running
        /\ relay = "ok" \/ a.tool = "SendMail"
        /\ Called(a, relay, IF run.agent = "review"
                             THEN review_tools(a.tool, a.input, reviews_data)
                             ELSE mail_tools(a.tool, a.input, relay))
        /\ reviews_data' = reviews_after(a.tool, reviews_data)
        /\ UNCHANGED <<pending, agent_runner>>

\* The response is sent and the handler's frame is gone.
ResponseSent ==
    /\ req.pc = "done"
    /\ req' = Idle
    /\ run' = NoRun
    /\ call' = NoCall
    /\ http' = NoHttp
    /\ UNCHANGED <<reviews_data, pending, agent_runner>>

\* `import agent_runner`
ImportAgentRunner ==
    /\ agent_runner = "unimported"
    /\ agent_runner' = agent_runner_import
    /\ UNCHANGED <<reviews_data, call, pending, req, run, http>>

Next ==
    \/ AskRequest
    \/ SendMailRequest
    \/ SmartRequest
    \/ ClassifierReturns
    \/ ClassifierRaises
    \/ SmartDispatch
    \/ AgentModelRaises
    \/ AgentFinish
    \/ AgentParseError
    \/ AgentInvalidTool
    \/ AgentToolCall
    \/ ResponseSent
    \/ ImportAgentRunner

Spec == Init /\ [][Next]_vars

(***************************************************************************)
(* Specification of the tools called directly                              *)
(***************************************************************************)
IntChars == {"5", "1", "0", "-", "+", " ", "a", "_"}
IntInputs == SeqsUpTo(IntChars, MaxLen)

InitTools ==
    /\ reviews_data \in {load_reviews_from_csv(f) : f \in Datasets}
    /\ call = NoCall
    /\ pending = [p \in Prompts |-> 0]
    /\ req = Idle
    /\ run = NoRun
    /\ http = NoHttp
    /\ agent_runner = "unimported"

Direct(tool, input, relay, c) ==
    /\ call' = [tool |-> tool, agent |-> "direct", input |-> input, relay |-> relay,
                inner |-> c.inner, wrapped |-> c.wrapped, result |-> c.result,
                smtp |-> c.smtp]
    /\ reviews_data' = reviews_after(tool, reviews_data)
    /\ UNCHANGED <<pending, req, run, http, agent_runner>>

CallCountRating ==
    /\ call = NoCall
    /\ \E s \in IntInputs :
         Direct("CountRating", s, "ok", review_tools("CountRating", s, reviews_data))

CallTopRatedComments ==
    /\ call = NoCall
    /\ \E s \in IntInputs :
         Direct("TopRatedComments", s, "ok",
                review_tools("TopRatedComments", s, reviews_data))

CallSendMail ==
    /\ call = NoCall
    /\ \E i \in MailInputs, relay \in SmtpOutcomes :
         Direct("SendMail", i.text, relay, mail_tools("SendMail", i.text, relay))

NextTools == CallCountRating \/ CallTopRatedComments \/ CallSendMail

SpecTools == InitTools /\ [][NextTools]_vars

(***************************************************************************)
(* Properties                                                              *)
(***************************************************************************)
InSmart == req.endpoint = "/smart"
Classified == InSmart /\ req.intent # None
ToolCalled == call.tool \notin {"none", "<invalid>"}
RunOver == run.status \notin {"none", "running"}
StartsWith(text, prefix) == text # <<>> /\ Head(text) = prefix

\* C1: a /smart request whose classified intent is neither Review nor Mail is
\* answered {"intent": "Unknown", "result": <the apology>} and runs no agent.
C1_UnknownIntentApologises ==
    (Classified /\ req.intent \notin {Review, Mail}) =>
        /\ req.intent = Unknown
        /\ req.review_runs = 0 /\ req.mail_runs = 0
        /\ run = NoRun /\ call = NoCall
        /\ req.pc \in {"classified", "done"}
        /\ req.pc = "done" => http = [status |-> 200, kind |-> "smart",
                                      intent |-> Unknown, text |-> Apology]

C1_Witness ==
    /\ InSmart /\ req.pc = "done" /\ req.intent = Unknown
    /\ http.status = 200 /\ http.text = Apology

\* s, with whitespace trimmed at both ends and letter case ignored, is the label.
TrimmedCaselessEquals(s, label) ==
    \E i \in 0..Len(s), j \in 0..Len(s) :
        /\ i + Len(label) + j = Len(s)
        /\ \A k \in 1..i : s[k] \in Whitespace
        /\ \A k \in (Len(s) - j + 1)..Len(s) : s[k] \in Whitespace
        /\ \A k \in 1..Len(label) : LowerChar(s[i + k]) = LowerChar(label[k])

\* C2: the classifier answers Review (Mail) exactly for the responses that are
\* that label after trimming and ignoring case, and Unknown otherwise; a /smart
\* request runs the review agent only for Review and the mail agent only for
\* Mail, at most one of them, at most once, with the request's prompt.
C2_ClassifyThenRoute ==
    /\ req.pc = "classified" =>
        /\ req.intent \in {Review, Mail, Unknown}
        /\ req.intent = Review <=> TrimmedCaselessEquals(req.response, Review)
        /\ req.intent = Mail <=> TrimmedCaselessEquals(req.response, Mail)
    /\ InSmart =>
        /\ req.review_runs + req.mail_runs <= 1
        /\ req.review_runs = 1 <=> run.agent = "review"
        /\ req.mail_runs = 1 <=> run.agent = "mail"
        /\ run.agent = "review" => req.intent = Review /\ run.input = req.text
        /\ run.agent = "mail" => req.intent = Mail /\ run.input = req.text
        /\ ToolCalled => call.agent = run.agent

C2_Witness ==
    /\ InSmart /\ req.pc = "done" /\ req.intent = Mail
    /\ req.mail_runs = 1 /\ req.review_runs = 0
    /\ run.agent = "mail" /\ run.input = req.text /\ req.text = <<"p2">>

\* C3, as claimed: every tool the agent loop calls, FinalAnswer of either registry
\* included, is wrapped by safe_tool; the call returns a string and never raises,
\* and an exception of the tool comes back as "[Tool Error] " and its message.
C3_EveryToolWrapped ==
    ToolCalled =>
        /\ call.wrapped
        /\ ~call.result.raised
        /\ call.inner.raised => call.result.text = <<"[Tool Error] ">> \o call.inner.text

\* C3, amended: every tool but the Mail registry's FinalAnswer is wrapped by
\* safe_tool; that one is the bare identity function, which raises nothing. Every
\* call returns a string and never raises, and an exception of a tool comes back
\* as "[Tool Error] " and its message.
C3_ToolCallsReturnText ==
    ToolCalled =>
        /\ call.wrapped <=> ~(call.agent = "mail" /\ call.tool = "FinalAnswer")
        /\ ~call.wrapped => ~call.inner.raised /\ call.result.text = call.input
        /\ ~call.result.raised
        /\ call.inner.raised => call.result.text = <<"[Tool Error] ">> \o call.inner.text
        /\ ~call.inner.raised => call.result = call.inner

C3_Witness ==
    /\ ToolCalled /\ call.agent = "review" /\ call.inner.raised
    /\ ~call.result.raised /\ StartsWith(call.result.text, "[Tool Error] ")

\* The entry of MailInputs a SendMail call was made with.
MailInputOf(text) == CHOOSE i \in MailInputs : i.text = text

\* C4: send_mail_tool never raises; it reports success, naming the recipient,
\* only after a transmission succeeded; for malformed JSON, a JSON value without
\* `to` and a transport failure it returns "[SendMail Error] ..."; and for
\* malformed JSON or a missing `to` it opens no SMTP connection and sends nothing.
C4_SendMailNeverRaises ==
    (call.tool = "SendMail" /\ call.agent = "direct") =>
        LET in == MailInputOf(call.input)
            text == call.result.text
            success == StartsWith(text, "Email sent successfully to ")
        IN /\ ~call.inner.raised /\ ~call.result.raised
           /\ success \/ StartsWith(text, "[SendMail Error] ")
           /\ success =>
                /\ call.relay = "ok" /\ in.class = "ok"
                /\ text = <<"Email sent successfully to ">> \o in.to
                /\ call.smtp.attempted
                /\ Len(call.smtp.sent) = 1
                /\ call.smtp.sent[1].To = in.to
                /\ call.smtp.sent[1].Subject = in.subject
                /\ call.smtp.sent[1].Content = in.body
           /\ ~success => call.smtp.sent = <<>>
           /\ in.class \in {"malformed", "no_to", "not_object"} =>
                ~success /\ ~call.smtp.attempted
           /\ call.relay # "ok" => ~success
           /\ (in.class = "ok" /\ call.relay = "ok") => success

C4_Witness ==
    /\ call.tool = "SendMail" /\ call.agent = "direct"
    /\ MailInputOf(call.input).class = "malformed" /\ call.relay = "ok"
    /\ StartsWith(call.result.text, "[SendMail Error] ")
    /\ ~call.smtp.attempted

\* C5, as claimed: a run takes at most 10 (review), 1 (mail), 3 (bare runner)
\* iterations, and ends on a final answer or on exhausting that bound.
C5_EndsOnAnswerOrBound ==
    /\ run.agent = "review" => run.iterations <= 10
    /\ run.agent = "mail" => run.iterations <= 1
    /\ run.agent = "bare" => run.iterations <= 3
    /\ RunOver => run.status \in {"finished", "stopped"}
    /\ run.status = "stopped" => run.iterations = MaxIterations(run.agent)
    /\ run.status = "running" => run.iterations < MaxIterations(run.agent)

\* C5, amended: a run takes at most 10 (review), 1 (mail), 3 (bare runner)
\* iterations, unparseable outputs counted, and ends on a final answer, on
\* exhausting that bound, or on an exception of a model call, which leaves run().
C5_RunsAreBounded ==
    /\ run.agent = "review" => run.iterations <= 10
    /\ run.agent = "mail" => run.iterations <= 1
    /\ run.agent = "bare" => run.iterations <= 3
    /\ RunOver => run.status \in {"finished", "stopped", "raised"}
    /\ run.status = "raised" => run.output = LLMError /\ req.exc = LLMError
    /\ run.status = "stopped" =>
         run.iterations = MaxIterations(run.agent) /\ run.output = StoppedText
    /\ run.status = "running" => run.iterations < MaxIterations(run.agent)
    /\ agent_runner # "ready"

\* Ten iterations, each an unparseable output: no tool was ever called.
C5_Witness ==
    /\ run.agent = "review" /\ run.status = "stopped" /\ run.iterations = 10
    /\ call = NoCall /\ req.pc = "done" /\ http.status = 200

\* C6: an exception raised while a request is handled gives a 500 whose detail
\* is the exception's message, never a success body; /ask runs only the review
\* agent and /sendmail only the mail agent.
C6_ExceptionsBecome500 ==
    /\ req.pc = "done" =>
        /\ req.exc # None => http = [status |-> 500, kind |-> "detail",
                                     intent |-> <<>>, text |-> req.exc]
        /\ req.exc = None => http.status = 200 /\ http.kind \in {"answer", "smart"}
        /\ run.status = "raised" => req.exc = run.output
    /\ req.pc # "done" => http = NoHttp
    /\ req.endpoint = "/ask" =>
        run.agent = "review" /\ req.review_runs = 1 /\ req.mail_runs = 0
    /\ req.endpoint = "/sendmail" =>
        run.agent = "mail" /\ req.mail_runs = 1 /\ req.review_runs = 0
    /\ (ToolCalled /\ req.endpoint \in {"/ask", "/sendmail"}) => call.agent = run.agent

C6_Witness ==
    /\ req.endpoint = "/ask" /\ req.pc = "done" /\ run.status = "raised"
    /\ run.iterations > 0 /\ http.status = 500 /\ http.text = LLMError

\* A string is Python's integer literal for int(): optional whitespace around
\* an optional sign and digits, single underscores allowed between digits.
IsNumeral(c) ==
    LET body == IF c[1] \in {"+", "-"} THEN Tail(c) ELSE c
    IN /\ body # <<>>
       /\ \A k \in 1..Len(body) :
            \/ body[k] \in Digits
            \/ /\ body[k] = "_" /\ 1 < k /\ k < Len(body)
               /\ body[k - 1] \in Digits /\ body[k + 1] \in Digits

WellFormedInt(s) ==
    \E i \in 0..Len(s), j \in 0..Len(s) :
        /\ i + j < Len(s)
        /\ \A k \in 1..i : s[k] \in Whitespace
        /\ \A k \in (Len(s) - j + 1)..Len(s) : s[k] \in Whitespace
        /\ IsNumeral(SubSeq(s, i + 1, Len(s) - j))

RECURSIVE Pow10(_)
Pow10(n) == IF n = 0 THEN 1 ELSE 10 * Pow10(n - 1)

\* The integer a well-formed string denotes.
IntOf(s) ==
    LET ds == SelectSeq(s, LAMBDA c : c \in Digits)
        mag == SumSeq([k \in 1..Len(ds) |-> DigitVal(ds[k]) * Pow10(Len(ds) - k)])
    IN IF \E k \in 1..Len(s) : s[k] = "-" THEN 0 - mag ELSE mag

\* The reviews whose rating is the integer k.
RatedExactly(k) ==
    {i \in DOMAIN reviews_data :
        /\ reviews_data[i].Rating # None
        /\ WellFormedInt(reviews_data[i].Rating)
        /\ IntOf(reviews_data[i].Rating) = k}

\* C7: for an input that is no well-formed integer, count_rating_tool and
\* top_rated_comments_tool return their fixed error string and do not raise; for
\* a well-formed integer they return a result that is not the error string, and
\* count_rating_tool's is "<count> customers gave a <rating>-star rating." with
\* the number of reviews whose rating is that integer.
C7_NumericInputs ==
    (call.tool \in {"CountRating", "TopRatedComments"} /\ call.agent = "direct") =>
        LET err == IF call.tool = "CountRating" THEN CountRatingError ELSE TopRatedError
        IN /\ ~call.inner.raised
           /\ ~WellFormedInt(call.input) => call.inner.text = err
           /\ WellFormedInt(call.input) => call.inner.text # err
           /\ (WellFormedInt(call.input) /\ call.tool = "CountRating") =>
                call.inner.text =
                    IntToStr(Cardinality(RatedExactly(IntOf(call.input))))
                    \o <<" customers gave a ">> \o IntToStr(IntOf(call.input))
                    \o <<"-star rating.">>

C7_Witness ==
    /\ call.tool = "CountRating" /\ call.agent = "direct"
    /\ call.input = <<"+", "0", "5">>
    /\ Cardinality(RatedExactly(5)) = 2
    /\ call.inner.text = <<"2", " customers gave a ", "5", "-star rating.">>

\* C8: after the load, no tool call and no request, failing ones included,
\* changes reviews_data: the same rows in the same order.
C8_StoreIsReadOnly == [][reviews_data' = reviews_data]_vars

C8_Witness ==
    /\ Len(reviews_data) = 2 /\ req.pc = "done" /\ http.status = 500
    /\ call.tool = "TopRatedComments" /\ run.iterations > 1

\* The five-star reviews, in file order.
FiveStars ==
    SelectSeq(reviews_data,
              LAMBDA r : r.Rating # None /\ WellFormedInt(r.Rating) /\ IntOf(r.Rating) = 5)

\* C9, as claimed: for every integer N, top_rated_comments_tool returns the first
\* N five-star reviews in file order (all of them when there are fewer), each as
\* "{title} ({date}): {body}", and the sentinel exactly when the dataset holds no
\* five-star review.
C9_FirstNFiveStars ==
    (call.tool = "TopRatedComments" /\ call.agent = "direct"
        /\ WellFormedInt(call.input)) =>
        LET n == IntOf(call.input)
            first == SubSeq(FiveStars, 1, Min(Max(n, 0), Len(FiveStars)))
        IN /\ call.inner.text = NoTopRated <=> FiveStars = <<>>
           /\ FiveStars # <<>> =>
                call.inner.text =
                    Join([i \in 1..Len(first) |-> FormatReview(first[i])], <<"\n\n">>)

\* C10: a mail run calls SendMail at most once and transmits at most one mail;
\* a SendMail call that returned an error is followed by no other call of the run.
C10_MailRunSendsOnce ==
    run.agent = "mail" =>
        /\ run.sendmail_calls <= 1
        /\ run.transmissions <= run.sendmail_calls
        /\ run.iterations <= 1
        /\ run.sendmail_calls = 1 =>
             /\ run.status = "stopped"
             /\ call.tool = "SendMail"
             /\ run.transmissions = Len(call.smtp.sent)

C10_Witness ==
    /\ InSmart /\ run.agent = "mail" /\ run.sendmail_calls = 1
    /\ call.tool = "SendMail" /\ StartsWith(call.result.text, "[SendMail Error] ")
    /\ MailInputOf(call.input).class = "malformed"
    /\ run.status = "stopped" /\ req.pc = "done"

====
